---- MODULE Spec2Model ----
(***************************************************************************)
(* Detection-and-annotation pipeline of main.py: the POST /process handler *)
(* (process_image), the GET /test_image handler (test_image_processing),   *)
(* the detector adapter (process_with_yolo) and the renderer               *)
(* (draw_predictions), run by one asyncio event loop.                      *)
(*                                                                         *)
(* Confidences and thresholds are percentages (0.25 is 25).  Wall-clock    *)
(* time (processing_time) and the static model_info block of the response  *)
(* are not modelled.                                                       *)
(***************************************************************************)
EXTENDS Integers, Sequences, FiniteSets, TLC

\* Number of requests that arrive (the i-th request of a run is request i).
MaxReqs == 2

Reqs == 1..MaxReqs

\* Values uuid.uuid4() can return.
Uuids == {"u1", "u2"}

(***************************************************************************)
(* State.                                                                  *)
(***************************************************************************)
VARIABLES
    model,        \* "loaded", or "None" when YOLO(MODEL_PATH) failed at import
    names,        \* model.names, the label table stored in the model file
    upload_dir,   \* files of UPLOAD_DIR: file name -> bytes
    result_dir,   \* files of RESULT_DIR: file name -> image
    usedUuids,    \* values uuid4() has returned
    loop,         \* request running on the event loop thread, 0 when it is free
    pc,           \* where each request is in its handler
    kind,         \* "process" (POST /process) or "test" (GET /test_image)
    file,         \* the request's UploadFile
    confidence,   \* the request's confidence threshold
    filename,     \* local: generated file name
    image,        \* local: decoded image
    call,         \* arguments of the request's running model.predict call
    detections,   \* local: detections
    annotated,    \* local: annotated image
    response,     \* what the client received
    trace,        \* history: the steps the request has performed, in order
    predictLog,   \* history: conf of every model.predict call of the request
    writes,       \* history: every file write, as [dir, name, req]
    clobbered     \* history: the paths written while a file was already there

vars == <<model, names, upload_dir, result_dir, usedUuids, loop, pc, kind, file, confidence,
          filename, image, call, detections, annotated, response, trace,
          predictLog, writes, clobbered>>

(***************************************************************************)
(* Uploaded material.  An upload's bytes either decode to an image of some *)
(* size showing some objects, or do not decode at all.  rows are the raw   *)
(* boxes the network sees in the picture, in the order it reports them.    *)
(***************************************************************************)
Row(cls, conf, x1, y1, x2, y2) ==
    [cls |-> cls, conf |-> conf, x1 |-> x1, y1 |-> y1, x2 |-> x2, y2 |-> y2]

Picture(w, h, rows) == [decodable |-> TRUE, width |-> w, height |-> h, rows |-> rows]

Garbage == [decodable |-> FALSE, width |-> 0, height |-> 0, rows |-> <<>>]

OneFlare == Picture(640, 480, <<Row(0, 50, 100, 0, 300, 200)>>)

TwoObjects == Picture(320, 240, <<Row(7, 30, 10, 20, 110, 120), Row(0, 90, 40, 60, 200, 220)>>)

\* UploadFile objects a client can post: a file name and the bytes.
Uploads ==
    { [name |-> <<"notes", ".txt">>, bytes |-> Garbage],
      [name |-> <<"flare", "">>, bytes |-> OneFlare],
      [name |-> <<"site", ".png">>, bytes |-> TwoObjects] }

\* Values of the confidence query parameter a client can send.
Confidences == {0, 50, 99}

\* The dataset picture /test_image works on.
TestImage == Picture(640, 640, <<Row(0, 90, 200, 100, 400, 500)>>)

\* Messages of the exceptions the detection capability can raise internally.
InternalMessages == {"corrupt JPEG data", "CUDA out of memory"}

NoImage == [decodable |-> FALSE, width |-> 0, height |-> 0, ops |-> <<>>]

NoName == <<>>

(***************************************************************************)
(* Module-level objects.                                                   *)
(***************************************************************************)
\* Label tables a model file can hold (model.names): the three classes the
\* colour table expects, a model trained with another name for class 0, and
\* a model whose class 0 is named like the colour table's class 1.
LabelTables ==
    { [i \in {0, 1, 2} |-> CASE i = 0 -> "flare" [] i = 1 -> "fire" [] OTHER -> "smoke"],
      [i \in {0} |-> "gas_flare"],
      [i \in {0} |-> "fire"] }

NoTable == [i \in {} |-> ""]

Digits == <<"0", "1", "2", "3", "4", "5", "6", "7", "8", "9">>

\* f"class_{class_id}" for the class ids of the model.
ClassFallback(class_id) == <<"class_", Digits[class_id + 1]>>

\* model.names.get(class_id, f"class_{class_id}")
names_get_unknown(class_id) ==
    IF class_id \in DOMAIN names THEN <<names[class_id]>> ELSE <<"unknown">>

names_get(class_id) ==
    IF class_id \in DOMAIN names THEN <<names[class_id]>> ELSE ClassFallback(class_id)

DefaultColor == <<255, 255, 255>>

COLORS_label ==
    [l \in {<<"flare">>, <<"fire">>, <<"smoke">>} |->
        CASE l = <<"flare">> -> <<0, 0, 255>>
          [] l = <<"fire">> -> <<0, 165, 255>>
          [] OTHER -> <<128, 128, 128>>]

COLORS_id ==
    [i \in {0, 1, 2} |->
        CASE i = 0 -> <<0, 0, 255>> [] i = 1 -> <<0, 165, 255>> [] OTHER -> <<128, 128, 128>>]

\* COLORS.get(class_name, COLORS.get(class_id, (255, 255, 255)))
COLORS_get_id_first(class_name, class_id) ==
    IF class_id \in DOMAIN COLORS_id THEN COLORS_id[class_id]
    ELSE IF class_name \in DOMAIN COLORS_label THEN COLORS_label[class_name]
    ELSE DefaultColor

COLORS_get(class_name, class_id) ==
    IF class_name \in DOMAIN COLORS_label THEN COLORS_label[class_name]
    ELSE IF class_id \in DOMAIN COLORS_id THEN COLORS_id[class_id]
    ELSE DefaultColor

(***************************************************************************)
(* File names.  A name is the sequence of the pieces it is formatted from. *)
(***************************************************************************)
\* os.path.splitext(file.filename)[1] or ".jpg"
file_extension(name) == IF name[2] = "" THEN ".jpg" ELSE name[2]

\* uuid.uuid4(): a value no earlier call returned.
uuid4_reused(used) == Uuids

uuid4(used) == Uuids \ used

\* filename = f"{uuid.uuid4()}{file_extension}"
upload_filename_fixed(u, ext) == <<"upload", ext>>

upload_filename(u, ext) == <<u, ext>>

\* filename = f"test_{uuid.uuid4()}.jpg"
test_filename(u) == <<"test_", u, ".jpg">>

\* result_filename = f"result_{filename}"
result_filename_fixed(name) == <<"result_", "latest", ".jpg">>

result_filename(name) == <<"result_">> \o name

(***************************************************************************)
(* Detector adapter: process_with_yolo.                                    *)
(***************************************************************************)
\* Keyword arguments of the model.predict call.
predict_kwargs_default(image_path, confidence_threshold) ==
    [source |-> image_path, conf |-> 25, iou |-> 45]

predict_kwargs(image_path, confidence_threshold) ==
    [source |-> image_path, conf |-> confidence_threshold, iou |-> 45]

\* What the network returns for a picture: the rows it sees whose score
\* reaches the conf it was called with, in its own order.
model_predict(bytes, conf) == SelectSeq(bytes.rows, LAMBDA row : row.conf >= conf)

\* One dictionary per box, appended in the order of the boxes.
detection(box) ==
    [class |-> names_get(box.cls),
     class_id |-> box.cls,
     confidence |-> box.conf,
     x |-> (box.x1 + box.x2) \div 2,
     y |-> (box.y1 + box.y2) \div 2,
     width |-> box.x2 - box.x1,
     height |-> box.y2 - box.y1,
     x1 |-> box.x1, y1 |-> box.y1, x2 |-> box.x2, y2 |-> box.y2]

\* for box in boxes: detections.append({...})
extract_detections_reversed(boxes) ==
    [i \in 1..Len(boxes) |-> detection(boxes[Len(boxes) + 1 - i])]

extract_detections(boxes) == [i \in 1..Len(boxes) |-> detection(boxes[i])]

(***************************************************************************)
(* Renderer: draw_predictions.  An image is its size and the drawing       *)
(* operations applied to the decoded pixels, oldest first.                 *)
(***************************************************************************)
\* cv2.imread: None for bytes that do not decode.
imread(bytes) ==
    IF bytes.decodable
    THEN [decodable |-> TRUE, width |-> bytes.width, height |-> bytes.height, ops |-> <<>>]
    ELSE NoImage

\* cv2.getTextSize(label, FONT_HERSHEY_SIMPLEX, 0.6, 2)
getTextSize(label) == [text_width |-> 11 * (Len(label.name) + 4), text_height |-> 13]

Max(a, b) == IF a >= b THEN a ELSE b

\* thickness = 3 if confidence > 0.5 else 2
box_thickness_from_half(conf) == IF conf >= 50 THEN 3 ELSE 2

box_thickness(conf) == IF conf > 50 THEN 3 ELSE 2

\* text_bg_y1 = max(0, y1 - text_height - 10)
label_top_unclamped(y1, text_height) == y1 - text_height - 10

label_top(y1, text_height) == Max(0, y1 - text_height - 10)

\* The drawing of one detection: box, label background, label text.
draw_one(d) ==
    LET color == COLORS_get(d.class, d.class_id)
        thickness == box_thickness(d.confidence)
        label == [name |-> d.class, percent |-> d.confidence]
        size == getTextSize(label)
        text_bg_y1 == label_top(d.y1, size.text_height)
    IN  [box |-> <<d.x1, d.y1, d.x2, d.y2>>,
         color |-> color,
         thickness |-> thickness,
         label |-> label,
         text_bg |-> <<d.x1, text_bg_y1, d.x1 + size.text_width, d.y1>>,
         text_org |-> <<d.x1, d.y1 - 5>>]

\* annotated = image.copy(), then one drawing per detection, in order.
draw_predictions_last_first(img, dets) ==
    [img EXCEPT !.ops = img.ops \o [i \in 1..Len(dets) |-> draw_one(dets[Len(dets) + 1 - i])]]

draw_predictions(img, dets) ==
    [img EXCEPT !.ops = img.ops \o [i \in 1..Len(dets) |-> draw_one(dets[i])]]

\* The image passed to draw_predictions, as the caller finds it after the
\* call: the drawing is done on image.copy().
source_after_draw_in_place(img, dets) == draw_predictions(img, dets)

source_after_draw(img, dets) == img

(***************************************************************************)
(* Pixels.  Every cv2 drawing call overwrites the pixels it covers.  The   *)
(* box outline of thickness t covers the pixels within (t - 1) / 2 of the  *)
(* rectangle's edges; the label background is a filled rectangle and the   *)
(* label text lies inside it.                                              *)
(***************************************************************************)
InRect(p, x1, y1, x2, y2) == x1 <= p[1] /\ p[1] <= x2 /\ y1 <= p[2] /\ p[2] <= y2

OnOutline(op, p) ==
    LET h == (op.thickness - 1) \div 2
        b == op.box
    IN  /\ InRect(p, b[1] - h, b[2] - h, b[3] + h, b[4] + h)
        /\ ~InRect(p, b[1] + h + 1, b[2] + h + 1, b[3] - h - 1, b[4] - h - 1)

InLabel(op, p) == InRect(p, op.text_bg[1], op.text_bg[2], op.text_bg[3], op.text_bg[4])

Covers(op, p) == OnOutline(op, p) \/ InLabel(op, p)

SourcePixel == [color |-> <<>>, part |-> "source"]

\* What the drawing op leaves at a pixel it covers: the label is drawn
\* after the box.
Paint(op, p) == [color |-> op.color, part |-> IF InLabel(op, p) THEN "label" ELSE "box"]

\* The pixel p after the first n drawings of ops.
RECURSIVE PixelAfter(_, _, _)
PixelAfter(ops, n, p) ==
    IF n = 0 THEN SourcePixel
    ELSE IF Covers(ops[n], p) THEN Paint(ops[n], p)
    ELSE PixelAfter(ops, n - 1, p)

Pixel(img, p) == PixelAfter(img.ops, Len(img.ops), p)

(***************************************************************************)
(* Statistics: the class_stats loop of process_image.                      *)
(***************************************************************************)
EmptyStats == [l \in {} |-> 0]

RECURSIVE class_stats_loop(_, _)
class_stats_loop(dets, n) ==
    IF n = 0 THEN EmptyStats
    ELSE LET prev == class_stats_loop(dets, n - 1)
             class_name == dets[n].class
             old == IF class_name \in DOMAIN prev THEN prev[class_name] ELSE 0
         IN  [l \in DOMAIN prev \cup {class_name} |->
                 IF l = class_name THEN old + 1 ELSE prev[l]]

class_stats_presence(dets) == [l \in {dets[i].class : i \in DOMAIN dets} |-> 1]

class_stats_of(dets) == class_stats_loop(dets, Len(dets))

(***************************************************************************)
(* Exceptions and responses.                                               *)
(***************************************************************************)
HTTPException(status_code, detail) ==
    [type |-> "HTTPException", status_code |-> status_code, detail |-> detail]

Error(type, message) == [type |-> type, status_code |-> 0, detail |-> message]

StatusText(status_code) ==
    CASE status_code = 400 -> "400" [] status_code = 503 -> "503" [] OTHER -> "500"

\* str(e): an HTTPException prints as "<status_code>: <detail>", any other
\* exception as its message.
str(e) ==
    IF e.type = "HTTPException"
    THEN <<StatusText(e.status_code), ": ">> \o e.detail
    ELSE e.detail

NoBody ==
    [success |-> FALSE, original_image |-> NoName, result_image |-> NoName,
     total_detections |-> 0, class_stats |-> EmptyStats, detections |-> <<>>,
     image_width |-> 0, image_height |-> 0, confidence_threshold |-> 0]

NoResponse == [status |-> 0, handled |-> TRUE, detail |-> <<>>, body |-> NoBody]

\* The response FastAPI sends for an HTTPException that leaves a handler.
HTTPError(e) ==
    [status |-> e.status_code, handled |-> TRUE, detail |-> e.detail, body |-> NoBody]

\* Any other exception that leaves a handler is an unhandled fault: the
\* server answers 500 "Internal Server Error" and the exception propagates.
Unhandled(e) ==
    [status |-> 500, handled |-> FALSE, detail |-> <<"Internal Server Error">>,
     body |-> NoBody]

OK(body) == [status |-> 200, handled |-> TRUE, detail |-> <<>>, body |-> body]

\* except Exception as e: raise HTTPException(500, f"Ошибка обработки: {str(e)}")
except_Exception(e) == HTTPException(500, <<"Oshibka obrabotki: ">> \o str(e))

\* What the client of a handler of kind k gets when e is raised inside the
\* handler's body: process_image wraps its body in try/except Exception,
\* test_image_processing has no try.
raised(k, e) == IF k = "process" THEN HTTPError(except_Exception(e)) ELSE Unhandled(e)

(***************************************************************************)
(* Initial state and bookkeeping.                                          *)
(***************************************************************************)
NoFile == [name |-> <<"", "">>, bytes |-> Garbage]

NoCall == [source |-> NoName, conf |-> 0, iou |-> 0]

EmptyDir == [n \in {} |-> Garbage]

\* open(path, "wb").write / shutil.copy2 / cv2.imwrite: create or replace.
write_file(dir, name, content) ==
    [n \in DOMAIN dir \cup {name} |-> IF n = name THEN content ELSE dir[n]]

Init ==
    /\ model \in {"loaded", "None"}
    /\ IF model = "None" THEN names = NoTable ELSE names \in LabelTables
    /\ upload_dir = EmptyDir
    /\ result_dir = [n \in {} |-> NoImage]
    /\ usedUuids = {}
    /\ loop = 0
    /\ pc = [r \in Reqs |-> "idle"]
    /\ kind = [r \in Reqs |-> "none"]
    /\ file = [r \in Reqs |-> NoFile]
    /\ confidence = [r \in Reqs |-> 0]
    /\ filename = [r \in Reqs |-> NoName]
    /\ image = [r \in Reqs |-> NoImage]
    /\ call = [r \in Reqs |-> NoCall]
    /\ detections = [r \in Reqs |-> <<>>]
    /\ annotated = [r \in Reqs |-> NoImage]
    /\ response = [r \in Reqs |-> NoResponse]
    /\ trace = [r \in Reqs |-> <<>>]
    /\ predictLog = [r \in Reqs |-> <<>>]
    /\ writes = {}
    /\ clobbered = {}

\* The handler of request r returns or raises: its frame is gone, the client
\* has resp, the event loop is free.
Leave(r, resp) ==
    /\ response' = [response EXCEPT ![r] = resp]
    /\ pc' = [pc EXCEPT ![r] = "done"]
    /\ loop' = 0
    /\ filename' = [filename EXCEPT ![r] = NoName]
    /\ image' = [image EXCEPT ![r] = NoImage]
    /\ call' = [call EXCEPT ![r] = NoCall]
    /\ detections' = [detections EXCEPT ![r] = <<>>]
    /\ annotated' = [annotated EXCEPT ![r] = NoImage]

\* History of one file write by request r.
Written(r, dirname, dir, name) ==
    /\ writes' = writes \cup {[dir |-> dirname, name |-> name, req |-> r]}
    /\ clobbered' = IF name \in DOMAIN dir
                    THEN clobbered \cup {[dir |-> dirname, name |-> name]}
                    ELSE clobbered

Step(r, name) == trace' = [trace EXCEPT ![r] = Append(@, name)]

\* The statement order of the two handlers: where a request of kind k goes
\* when the statement at `at` has completed without raising.
after_detect_first(k, at) ==
    CASE at = "read" -> "predict"
      [] at = "predict" -> "in predict"
      [] at = "in predict" -> "imread"
      [] at = "imread" -> "draw"
      [] at = "draw" -> "imwrite"
      [] OTHER -> "return"

after_redetect(k, at) ==
    CASE at = "read" -> "imread"
      [] at = "imread" -> IF k = "process" THEN "predict" ELSE "draw"
      [] at = "predict" -> "in predict"
      [] at = "in predict" -> IF k = "process" THEN "draw" ELSE "imread"
      [] at = "draw" -> IF k = "process" THEN "predict" ELSE "imwrite"
      [] OTHER -> "return"

after(k, at) ==
    CASE at = "read" -> "imread"
      [] at = "imread" -> IF k = "process" THEN "predict" ELSE "draw"
      [] at = "predict" -> "in predict"
      [] at = "in predict" -> IF k = "process" THEN "draw" ELSE "imread"
      [] at = "draw" -> "imwrite"
      [] OTHER -> "return"

\* Who holds the event loop while request r is inside model.predict: the
\* call is made synchronously from the coroutine, which keeps the loop.
predict_holder_threadpool(r) == 0

predict_holder(r) == r

\* Requests are numbered in the order they arrive.
Arrives(r) ==
    /\ pc[r] = "idle"
    /\ loop = 0
    /\ \A q \in Reqs : q < r => pc[q] # "idle"

(***************************************************************************)
(* POST /process: process_image.                                           *)
(***************************************************************************)
\* From the start of the handler to `await file.read()`, where it yields.
ProcessImageEnter(r, f, c) ==
    /\ Arrives(r)
    /\ kind' = [kind EXCEPT ![r] = "process"]
    /\ file' = [file EXCEPT ![r] = f]
    /\ confidence' = [confidence EXCEPT ![r] = c]
    /\ IF model = "None"
       THEN /\ Leave(r, HTTPError(HTTPException(503, <<"Model YOLO ne zagruzhena">>)))
            /\ UNCHANGED <<usedUuids, trace>>
       ELSE /\ \E u \in uuid4(usedUuids) :
                 /\ usedUuids' = usedUuids \cup {u}
                 /\ filename' = [filename EXCEPT ![r] = upload_filename(u, file_extension(f.name))]
            /\ pc' = [pc EXCEPT ![r] = "read"]
            /\ loop' = 0
            /\ Step(r, "named")
            /\ UNCHANGED <<image, call, detections, annotated, response>>
    /\ UNCHANGED <<model, names, upload_dir, result_dir, predictLog, writes, clobbered>>

\* contents = await file.read(); with open(upload_path, "wb") as f: f.write(contents)
ProcessImageStore(r, ok) ==
    /\ pc[r] = "read"
    /\ loop = 0
    /\ IF ok
       THEN /\ upload_dir' = write_file(upload_dir, filename[r], file[r].bytes)
            /\ Written(r, "uploads", upload_dir, filename[r])
            /\ pc' = [pc EXCEPT ![r] = after(kind[r], "read")]
            /\ loop' = r
            /\ Step(r, "stored")
            /\ UNCHANGED <<filename, image, call, detections, annotated, response>>
       ELSE /\ Leave(r, raised(kind[r], Error("OSError", <<"No space left on device">>)))
            /\ Step(r, "store failed")
            /\ UNCHANGED <<upload_dir, writes, clobbered>>
    /\ UNCHANGED <<model, names, result_dir, usedUuids, kind, file, confidence, predictLog>>

\* image = cv2.imread(str(upload_path)); None raises HTTPException(400)
\* inside the try block.
ProcessImageRead(r) ==
    /\ pc[r] = "imread"
    /\ kind[r] = "process"
    /\ loop = r
    /\ LET img == imread(upload_dir[filename[r]])
       IN  IF img = NoImage
           THEN /\ Leave(r, raised(kind[r],
                                   HTTPException(400, <<"Ne udalos zagruzit izobrazhenie">>)))
                /\ Step(r, "undecodable")
           ELSE /\ image' = [image EXCEPT ![r] = img]
                /\ pc' = [pc EXCEPT ![r] = after(kind[r], "imread")]
                /\ Step(r, "decoded")
                /\ UNCHANGED <<loop, filename, call, detections, annotated, response>>
    /\ UNCHANGED <<model, names, upload_dir, result_dir, usedUuids, kind, file, confidence,
                   predictLog, writes, clobbered>>

(***************************************************************************)
(* process_with_yolo, called by both handlers.                             *)
(***************************************************************************)
\* if model is None: raise ValueError; else results = model.predict(...)
PredictCall(r) ==
    /\ pc[r] = "predict"
    /\ loop = r
    /\ IF model = "None"
       THEN /\ Leave(r, raised(kind[r], Error("ValueError", <<"Model ne zagruzhena">>)))
            /\ Step(r, "model missing")
            /\ UNCHANGED predictLog
       ELSE /\ LET kw == predict_kwargs(filename[r], confidence[r])
               IN  /\ call' = [call EXCEPT ![r] = kw]
                   /\ predictLog' = [predictLog EXCEPT ![r] = Append(@, kw.conf)]
            /\ pc' = [pc EXCEPT ![r] = after(kind[r], "predict")]
            /\ loop' = predict_holder(r)
            /\ Step(r, "predict called")
            /\ UNCHANGED <<filename, image, detections, annotated, response>>
    /\ UNCHANGED <<model, names, upload_dir, result_dir, usedUuids, kind, file, confidence, writes,
                   clobbered>>

\* model.predict raises internally.
PredictRaise(r, msg) ==
    /\ pc[r] = "in predict"
    /\ loop = predict_holder(r)
    /\ Leave(r, raised(kind[r], Error("Exception", <<msg>>)))
    /\ Step(r, "predict raised")
    /\ UNCHANGED <<model, names, upload_dir, result_dir, usedUuids, kind, file, confidence,
                   predictLog, writes, clobbered>>

\* model.predict returns; the boxes are turned into the detections list.
PredictReturn(r) ==
    /\ pc[r] = "in predict"
    /\ loop = predict_holder(r)
    /\ loop' = r
    /\ detections' = [detections EXCEPT ![r] =
           extract_detections(model_predict(upload_dir[call[r].source], call[r].conf))]
    /\ call' = [call EXCEPT ![r] = NoCall]
    /\ pc' = [pc EXCEPT ![r] = after(kind[r], "in predict")]
    /\ Step(r, "detected")
    /\ UNCHANGED <<model, names, upload_dir, result_dir, usedUuids, kind, file, confidence,
                   filename, image, annotated, response, predictLog, writes, clobbered>>

(***************************************************************************)
(* Rendering and persisting, in both handlers.                             *)
(***************************************************************************)
\* annotated_image = draw_predictions(image, detections)
Draw(r) ==
    /\ pc[r] = "draw"
    /\ loop = r
    /\ annotated' = [annotated EXCEPT ![r] = draw_predictions(image[r], detections[r])]
    /\ image' = [image EXCEPT ![r] = source_after_draw(image[r], detections[r])]
    /\ pc' = [pc EXCEPT ![r] = after(kind[r], "draw")]
    /\ Step(r, "rendered")
    /\ UNCHANGED <<model, names, upload_dir, result_dir, usedUuids, loop, kind, file,
                   confidence, filename, call, detections, response, predictLog, writes,
                   clobbered>>

\* cv2.imwrite(str(result_path), annotated): writes the file, or returns
\* False without writing, or raises cv2.error (no encoder for the extension).
Imwrite(r, outcome) ==
    /\ pc[r] = "imwrite"
    /\ loop = r
    /\ IF outcome = "raised"
       THEN /\ Leave(r, raised(kind[r], Error("cv2.error", <<"could not find a writer">>)))
            /\ Step(r, "imwrite raised")
            /\ UNCHANGED <<result_dir, writes, clobbered>>
       ELSE /\ IF outcome = "written"
               THEN /\ result_dir' =
                         write_file(result_dir, result_filename(filename[r]), annotated[r])
                    /\ Written(r, "results", result_dir, result_filename(filename[r]))
               ELSE UNCHANGED <<result_dir, writes, clobbered>>
            /\ pc' = [pc EXCEPT ![r] = after(kind[r], "imwrite")]
            /\ Step(r, "persisted")
            /\ UNCHANGED <<loop, filename, image, call, detections, annotated, response>>
    /\ UNCHANGED <<model, names, upload_dir, usedUuids, kind, file, confidence, predictLog>>

\* The class_stats loop and the returned dictionary of process_image.
ProcessImageReturn(r) ==
    /\ pc[r] = "return"
    /\ kind[r] = "process"
    /\ loop = r
    /\ Leave(r, OK([success |-> TRUE,
                    original_image |-> filename[r],
                    result_image |-> result_filename(filename[r]),
                    total_detections |-> Len(detections[r]),
                    class_stats |-> class_stats_of(detections[r]),
                    detections |-> detections[r],
                    image_width |-> image[r].width,
                    image_height |-> image[r].height,
                    confidence_threshold |-> confidence[r]]))
    /\ trace' = [trace EXCEPT ![r] = @ \o <<"aggregated", "completed">>]
    /\ UNCHANGED <<model, names, upload_dir, result_dir, usedUuids, kind, file, confidence,
                   predictLog, writes, clobbered>>

(***************************************************************************)
(* GET /test_image: test_image_processing.  It has no await: it keeps the  *)
(* event loop from its first line to its return.                           *)
(***************************************************************************)
\* The response of test_image_processing, in the fields of NoBody:
\* test_image, result_image, detections (a count) and detections_list.
test_body(name, dets) ==
    [NoBody EXCEPT !.original_image = name,
                   !.result_image = result_filename(name),
                   !.total_detections = Len(dets),
                   !.detections = dets]

\* Up to shutil.copy2(test_image_path, upload_path).
TestImageEnter(r, exists) ==
    /\ Arrives(r)
    /\ kind' = [kind EXCEPT ![r] = "test"]
    /\ file' = [file EXCEPT ![r] = [name |-> <<"flare_0008", ".jpg">>, bytes |-> TestImage]]
    /\ confidence' = [confidence EXCEPT ![r] = 25]
    /\ IF ~exists
       THEN /\ Leave(r, [OK(NoBody) EXCEPT !.detail = <<"Testovoe izobrazhenie ne naideno">>])
            /\ UNCHANGED <<usedUuids, upload_dir, writes, clobbered, trace>>
       ELSE /\ \E u \in uuid4(usedUuids) :
                 /\ usedUuids' = usedUuids \cup {u}
                 /\ filename' = [filename EXCEPT ![r] = test_filename(u)]
                 /\ upload_dir' = write_file(upload_dir, test_filename(u), TestImage)
                 /\ Written(r, "uploads", upload_dir, test_filename(u))
            /\ pc' = [pc EXCEPT ![r] = "predict"]
            /\ loop' = r
            /\ trace' = [trace EXCEPT ![r] = @ \o <<"named", "stored">>]
            /\ UNCHANGED <<image, call, detections, annotated, response>>
    /\ UNCHANGED <<model, names, result_dir, predictLog>>

\* image = cv2.imread(str(upload_path)), unchecked: draw_predictions on None
\* raises AttributeError.
TestImageRead(r) ==
    /\ pc[r] = "imread"
    /\ kind[r] = "test"
    /\ loop = r
    /\ LET img == imread(upload_dir[filename[r]])
       IN  IF img = NoImage
           THEN /\ Leave(r, raised(kind[r], Error("AttributeError", <<"NoneType has no copy">>)))
                /\ Step(r, "undecodable")
           ELSE /\ image' = [image EXCEPT ![r] = img]
                /\ pc' = [pc EXCEPT ![r] = after(kind[r], "imread")]
                /\ Step(r, "decoded")
                /\ UNCHANGED <<loop, filename, call, detections, annotated, response>>
    /\ UNCHANGED <<model, names, upload_dir, result_dir, usedUuids, kind, file, confidence,
                   predictLog, writes, clobbered>>

TestImageReturn(r) ==
    /\ pc[r] = "return"
    /\ kind[r] = "test"
    /\ loop = r
    /\ Leave(r, OK(test_body(filename[r], detections[r])))
    /\ Step(r, "completed")
    /\ UNCHANGED <<model, names, upload_dir, result_dir, usedUuids, kind, file, confidence,
                   predictLog, writes, clobbered>>

(***************************************************************************)
(* Specification.                                                          *)
(***************************************************************************)
Next ==
    \E r \in Reqs :
        \/ \E f \in Uploads, c \in Confidences : ProcessImageEnter(r, f, c)
        \/ \E ok \in BOOLEAN : ProcessImageStore(r, ok)
        \/ ProcessImageRead(r)
        \/ PredictCall(r)
        \/ \E msg \in InternalMessages : PredictRaise(r, msg)
        \/ PredictReturn(r)
        \/ Draw(r)
        \/ \E outcome \in {"written", "false", "raised"} : Imwrite(r, outcome)
        \/ ProcessImageReturn(r)
        \/ \E exists \in BOOLEAN : TestImageEnter(r, exists)
        \/ TestImageRead(r)
        \/ TestImageReturn(r)

Spec == Init /\ [][Next]_vars

(***************************************************************************)
(* One POST /process request on pictures showing any sequence of at most   *)
(* MaxRows objects.                                                        *)
(***************************************************************************)
\* Longest sequence of objects in a picture.
MaxRows == 2

\* Boxes touching the top border, closer to it than a label is high, and
\* well below it; all share their bottom right corner.
SampleRows ==
    { Row(0, 50, 100, 0, 300, 200),
      Row(7, 90, 100, 0, 300, 200),
      Row(0, 90, 100, 20, 300, 200),
      Row(7, 50, 100, 20, 300, 200),
      Row(0, 90, 100, 100, 300, 200),
      Row(7, 50, 100, 100, 300, 200) }

RowSeqs == UNION {[1..n -> SampleRows] : n \in 0..MaxRows}

Shots == {[name |-> <<"shot", ".jpg">>, bytes |-> Picture(640, 480, rows)] : rows \in RowSeqs}

ShotConfidences == {25, 60}

PipelineNext ==
    \/ \E f \in Shots, c \in ShotConfidences : ProcessImageEnter(1, f, c)
    \/ ProcessImageStore(1, TRUE)
    \/ ProcessImageRead(1)
    \/ PredictCall(1)
    \/ PredictReturn(1)
    \/ Draw(1)
    \/ Imwrite(1, "written")
    \/ ProcessImageReturn(1)

PipelineSpec == Init /\ [][PipelineNext]_vars

TypeOK ==
    /\ model \in {"loaded", "None"}
    /\ loop \in Reqs \cup {0}
    /\ usedUuids \subseteq Uuids
    /\ \A r \in Reqs :
        /\ pc[r] \in {"idle", "read", "imread", "predict", "in predict", "draw", "imwrite",
                      "return", "done"}
        /\ kind[r] \in {"none", "process", "test"}
        /\ response[r].status \in {0, 200, 500, 503}

(***************************************************************************)
(* Properties.                                                             *)
(***************************************************************************)
Done(r) == pc[r] = "done"

Completed(r) == Done(r) /\ response[r].status = 200 /\ response[r].body.success

InRange(c) == c > 0 /\ c <= 100

Has(seq, x) == \E i \in DOMAIN seq : seq[i] = x

Last(seq) == seq[Len(seq)]

\* C1: a confidence threshold outside (0, 1] is clamped into (0, 1] or the
\* call is rejected; every conf handed to the detection capability lies in
\* (0, 1].
C1_ThresholdChecked ==
    \A r \in Reqs : \A i \in DOMAIN predictLog[r] : InRange(predictLog[r][i])

\* C2: with a threshold t in (0, 1], no detection of a request has a
\* confidence below t, neither in the handler nor in the response; and when
\* every object of the picture scores below t the response reports
\* total_detections = 0 and an empty class_stats.
C2_NoDetectionBelowThreshold ==
    \A r \in Reqs :
        InRange(confidence[r]) =>
            /\ \A i \in DOMAIN detections[r] : detections[r][i].confidence >= confidence[r]
            /\ Done(r) /\ response[r].status = 200 =>
                 LET body == response[r].body
                 IN  /\ \A i \in DOMAIN body.detections :
                            body.detections[i].confidence >= confidence[r]
                     /\ (\A i \in DOMAIN file[r].bytes.rows :
                            file[r].bytes.rows[i].conf < confidence[r])
                        => body.total_detections = 0 /\ body.class_stats = EmptyStats

\* A completed POST /process request with threshold 0.99 on a picture whose
\* only object scores 0.5, reporting no detection.
C2_Witness ==
    \E r \in Reqs :
        /\ Completed(r)
        /\ confidence[r] = 99
        /\ file[r].bytes = OneFlare
        /\ response[r].body.total_detections = 0

\* C3: a POST /process request whose bytes do not decode ends with the
\* caller error InvalidImage (status 400, unlike the 500 of an inference or
\* internal failure) and stores nothing under the results directory.
C3_InvalidImageReported ==
    \A r \in Reqs :
        Done(r) /\ kind[r] = "process" /\ Has(trace[r], "undecodable") =>
            /\ response[r].status = 400
            /\ \A w \in writes : w.req = r => w.dir # "results"

(***************************************************************************)
(* Step order of POST /process.                                            *)
(***************************************************************************)
\* Index of the first occurrence of step x in seq, 0 when it is absent.
IndexOf(seq, x) ==
    IF Has(seq, x) THEN CHOOSE i \in DOMAIN seq : seq[i] = x /\ \A j \in 1..(i - 1) : seq[j] # x
    ELSE 0

Before(seq, x, y) == Has(seq, y) => Has(seq, x) /\ IndexOf(seq, x) < IndexOf(seq, y)

ProcessOrder ==
    <<"named", "stored", "decoded", "predict called", "detected", "rendered", "persisted",
      "aggregated", "completed">>

FailureSteps ==
    {"store failed", "undecodable", "model missing", "predict raised", "imwrite raised"}

IsPrefix(p, seq) == Len(p) <= Len(seq) /\ \A i \in DOMAIN p : p[i] = seq[i]

WouldInfer(r) == kind[r] = "process" \/ (kind[r] = "test" /\ Has(trace[r], "stored"))

\* C5: when the model was never loaded, every finished request that would
\* run inference was answered with service unavailable (503) and no
\* inference was attempted.
C5_ModelUnavailable ==
    model = "None" =>
        \A r \in Reqs :
            Done(r) /\ WouldInfer(r) => response[r].status = 503 /\ predictLog[r] = <<>>

\* C6: no failure of a request leaves its handler as an unhandled fault;
\* every finished request was answered with a structured result.
C6_NoUnhandledFault == \A r \in Reqs : Done(r) => response[r].handled

\* C7: two POST /process requests whose inference raised internally, whatever
\* the internal messages, are answered with the same error content.
C7_GenericInferenceError ==
    \A r1, r2 \in Reqs :
        /\ Done(r1) /\ kind[r1] = "process" /\ Has(trace[r1], "predict raised")
        /\ Done(r2) /\ kind[r2] = "process" /\ Has(trace[r2], "predict raised")
        => response[r1] = response[r2]

(***************************************************************************)
(* Artifacts.                                                              *)
(***************************************************************************)
\* C8: no two requests write to the same storage path, and no write replaces
\* a file that was already stored.
C8_NoSharedPath ==
    /\ \A w1, w2 \in writes : w1.dir = w2.dir /\ w1.name = w2.name => w1.req = w2.req
    /\ clobbered = {}

\* Two requests have each stored an input and an output artifact.
C8_Witness ==
    \E r1, r2 \in Reqs :
        /\ r1 # r2
        /\ \A r \in {r1, r2} : \A d \in {"uploads", "results"} :
               \E w \in writes : w.req = r /\ w.dir = d

\* C9: every stored output artifact is named "result_" followed by the name
\* of an input artifact that is stored, and the result_image of a completed
\* request is "result_" followed by the name of the input that request stored.
C9_ResultDerivedFromInput ==
    /\ \A n \in DOMAIN result_dir : \E i \in DOMAIN upload_dir : n = <<"result_">> \o i
    /\ \A r \in Reqs :
           Done(r) /\ response[r].body.result_image # NoName =>
               /\ response[r].body.result_image = <<"result_">> \o response[r].body.original_image
               /\ [dir |-> "uploads", name |-> response[r].body.original_image, req |-> r]
                      \in writes

\* A completed request whose output artifact is stored.
C9_Witness ==
    \E r \in Reqs :
        /\ Completed(r)
        /\ response[r].body.result_image \in DOMAIN result_dir

\* C10: two completed POST /process requests with identical image bytes and
\* identical threshold report equal detections and equal class_stats, and
\* distinct input and output artifact identifiers.
C10_Idempotence ==
    \A r1, r2 \in Reqs :
        /\ r1 # r2
        /\ Completed(r1) /\ Completed(r2)
        /\ file[r1].bytes = file[r2].bytes
        /\ confidence[r1] = confidence[r2]
        => LET b1 == response[r1].body
               b2 == response[r2].body
           IN  /\ b1.detections = b2.detections
               /\ b1.class_stats = b2.class_stats
               /\ b1.original_image # b2.original_image
               /\ b1.result_image # b2.result_image

\* Two completed requests with the same bytes and threshold that report a
\* detection.
C10_Witness ==
    \E r1, r2 \in Reqs :
        /\ r1 # r2
        /\ Completed(r1) /\ Completed(r2)
        /\ file[r1].bytes = file[r2].bytes
        /\ confidence[r1] = confidence[r2]
        /\ response[r1].body.total_detections > 0

(***************************************************************************)
(* Statistics, labels and rendering.                                       *)
(***************************************************************************)
RECURSIVE SumOver(_, _)
SumOver(f, S) ==
    IF S = {} THEN 0
    ELSE LET x == CHOOSE y \in S : TRUE IN f[x] + SumOver(f, S \ {x})

\* The request has rendered and not yet returned: its source image, its
\* detections and its annotated image are all at hand.
Rendered(r) == pc[r] \in {"imwrite", "return"}

\* C11: the class_stats of a completed request map every class label that
\* occurs in its detections to the number of its occurrences, hold no zero
\* count, and sum to the number of detections, which is total_detections.
C11_ClassStats ==
    \A r \in Reqs :
        Completed(r) =>
            LET body == response[r].body
                D == body.detections
                labels == {D[i].class : i \in DOMAIN D}
                stats == body.class_stats
            IN  /\ DOMAIN stats = labels
                /\ \A l \in labels :
                       /\ stats[l] = Cardinality({i \in DOMAIN D : D[i].class = l})
                       /\ stats[l] > 0
                /\ SumOver(stats, DOMAIN stats) = Len(D)
                /\ body.total_detections = Len(D)

\* A completed request that counts one class twice.
C11_Witness ==
    \E r \in Reqs :
        /\ Completed(r)
        /\ \E l \in DOMAIN response[r].body.class_stats : response[r].body.class_stats[l] = 2

\* C12: the class label of every detection is the label table's entry for
\* its class_id, and "class_<id>" when the table has no such entry ("class_7"
\* for id 7); a request whose model.predict call returned has its detections.
C12_LabelFallback ==
    \A r \in Reqs :
        /\ \A i \in DOMAIN detections[r] :
               LET d == detections[r][i]
               IN  /\ d.class_id \in DOMAIN names => d.class = <<names[d.class_id]>>
                   /\ d.class_id \notin DOMAIN names =>
                          /\ Len(d.class) = 2
                          /\ d.class[1] = "class_"
                          /\ d.class_id = 7 => d.class = <<"class_", "7">>
        /\ Rendered(r) => Has(trace[r], "detected") /\ ~Has(trace[r], "predict raised")

\* A detection of class 7 under a label table without an entry for 7.
C12_Witness ==
    \E r \in Reqs : \E i \in DOMAIN detections[r] :
        /\ detections[r][i].class_id = 7
        /\ 7 \notin DOMAIN names
        /\ detections[r][i].class = <<"class_", "7">>

\* C13: after rendering, the source image is what it was before the call
\* (the decoded upload), the annotated image has the source's dimensions,
\* and for no detections the annotated image equals the source.
C13_SourceUntouched ==
    \A r \in Reqs :
        Rendered(r) =>
            /\ image[r] = imread(upload_dir[filename[r]])
            /\ annotated[r].width = image[r].width
            /\ annotated[r].height = image[r].height
            /\ detections[r] = <<>> => annotated[r] = image[r]

\* A request has rendered detections: its annotated image differs from its
\* source image.
C13_Witness ==
    \E r \in Reqs : Rendered(r) /\ detections[r] # <<>> /\ annotated[r] # image[r]

\* C14: the label background of every drawn detection starts at
\* max(0, y1 - label height - 10): never above the image, and at y = 0 when
\* y1 is 0 or smaller than the label height.
C14_LabelClamp ==
    \A r \in Reqs : \A i \in DOMAIN annotated[r].ops :
        LET op == annotated[r].ops[i]
            y1 == op.box[2]
            h == getTextSize(op.label).text_height
        IN  /\ op.text_bg[2] >= 0
            /\ y1 - h - 10 >= 0 => op.text_bg[2] = y1 - h - 10
            /\ y1 - h - 10 < 0 => op.text_bg[2] = 0

\* A drawn detection whose box touches the top border.
C14_Witness ==
    \E r \in Reqs : \E i \in DOMAIN annotated[r].ops :
        annotated[r].ops[i].box[2] = 0 /\ annotated[r].ops[i].text_bg[2] = 0

\* C15: the colour of every drawn detection is the colour table's entry
\* for its class label if there is one, else the entry for its class id if
\* there is one, else the default colour.
C15_ColorLookup ==
    \A r \in Reqs :
        Rendered(r) =>
            /\ Len(annotated[r].ops) = Len(detections[r])
            /\ \A i \in DOMAIN detections[r] :
                   LET d == detections[r][i]
                       color == annotated[r].ops[i].color
                   IN  /\ d.class \in DOMAIN COLORS_label => color = COLORS_label[d.class]
                       /\ d.class \notin DOMAIN COLORS_label /\ d.class_id \in DOMAIN COLORS_id
                              => color = COLORS_id[d.class_id]
                       /\ d.class \notin DOMAIN COLORS_label /\ d.class_id \notin DOMAIN COLORS_id
                              => color = <<255, 255, 255>>

\* A drawn detection whose label and id both have an entry, with different
\* colours, drawn in the label's colour.
C15_Witness ==
    \E r \in Reqs :
        /\ Rendered(r)
        /\ \E i \in DOMAIN detections[r] :
               LET d == detections[r][i]
               IN  /\ d.class \in DOMAIN COLORS_label
                   /\ d.class_id \in DOMAIN COLORS_id
                   /\ COLORS_label[d.class] # COLORS_id[d.class_id]
                   /\ annotated[r].ops[i].color = COLORS_label[d.class]

\* A drawn detection coloured by its id, and one in the default colour.
C15_LowerTiers ==
    \E r \in Reqs :
        /\ Rendered(r)
        /\ \E i, j \in DOMAIN detections[r] :
               /\ detections[r][i].class = <<"gas_flare">>
               /\ annotated[r].ops[i].color = COLORS_id[0]
               /\ detections[r][j].class = <<"class_", "7">>
               /\ annotated[r].ops[j].color = DefaultColor

(***************************************************************************)
(* Inference calls.                                                        *)
(***************************************************************************)
InPredict == {r \in Reqs : pc[r] = "in predict"}

\* C16: at most one request is inside the detector's inference call at any
\* time.
C16_PredictSerialized == Cardinality(InPredict) <= 1

\* One request is inside model.predict while another one is in flight,
\* suspended at its await.
C16_Witness == \E r1, r2 \in Reqs : r1 # r2 /\ pc[r1] = "in predict" /\ pc[r2] = "read"

NoRepeat(seq) == \A i, j \in DOMAIN seq : seq[i] = seq[j] => i = j

Returned(r) == model_predict(upload_dir[filename[r]], confidence[r])

\* C18: the detections of a request are the rows its model.predict call
\* returned, one detection per row in the same order, and none when it
\* returned no row.
C18_OneDetectionPerRow ==
    \A r \in Reqs :
        Rendered(r) =>
            /\ Len(detections[r]) = Len(Returned(r))
            /\ \A i \in DOMAIN detections[r] :
                   LET d == detections[r][i]
                       row == Returned(r)[i]
                   IN  /\ d.class_id = row.cls
                       /\ d.confidence = row.conf
                       /\ <<d.x1, d.y1, d.x2, d.y2>> = <<row.x1, row.y1, row.x2, row.y2>>
            /\ Returned(r) = <<>> => detections[r] = <<>>

\* A request with two detections made from two different rows.
C18_Witness ==
    \E r \in Reqs :
        /\ Rendered(r)
        /\ Len(detections[r]) = 2
        /\ Returned(r)[1] # Returned(r)[2]

\* C19: every detection is drawn with stroke width 3 when its confidence is
\* above 0.5 and with stroke width 2 otherwise, 0.5 included, whatever the
\* confidence threshold of the request.
C19_StrokeWidth ==
    \A r \in Reqs :
        Rendered(r) =>
            \A i \in DOMAIN detections[r] :
                /\ detections[r][i].confidence > 50 => annotated[r].ops[i].thickness = 3
                /\ detections[r][i].confidence <= 50 => annotated[r].ops[i].thickness = 2

\* A detection of confidence exactly 0.5 drawn with stroke width 2.
C19_Witness ==
    \E r \in Reqs :
        /\ Rendered(r)
        /\ \E i \in DOMAIN detections[r] :
               detections[r][i].confidence = 50 /\ annotated[r].ops[i].thickness = 2

\* Pixels looked at: the corner all sample boxes share, the top left
\* corners, points inside the label backgrounds, and a point inside the boxes.
SamplePixels == {<<300, 200>>, <<100, 0>>, <<100, 20>>, <<150, 10>>, <<150, 90>>, <<200, 150>>}

MaxOf(S) == CHOOSE x \in S : \A y \in S : y <= x

\* The detections of request r whose drawing covers pixel p.
Covering(r, p) == {i \in DOMAIN detections[r] : Covers(draw_one(detections[r][i]), p)}

\* C20: a pixel covered by the drawings of several detections ends with the
\* value written by the last of these detections in the DetectionSet.
C20_LaterDrawsOver ==
    \A r \in Reqs :
        Rendered(r) =>
            \A p \in SamplePixels :
                Covering(r, p) # {} =>
                    Pixel(annotated[r], p)
                        = Paint(draw_one(detections[r][MaxOf(Covering(r, p))]), p)

\* A pixel covered by two detections that paint it differently.
C20_Witness ==
    \E r \in Reqs : \E p \in SamplePixels :
        /\ Rendered(r)
        /\ Cardinality(Covering(r, p)) = 2
        /\ Paint(draw_one(detections[r][1]), p) # Paint(draw_one(detections[r][2]), p)
        /\ Pixel(annotated[r], p) = Paint(draw_one(detections[r][2]), p)

====
